---- MODULE Spec2Model ----
(***************************************************************************)
(* Token-2022 extension directory of pinocchio: the TLV scan of the        *)
(* extension region (extensions/mod.rs) and the per-extension accessors    *)
(* from_account_info_unchecked.  Byte buffers are sequences of 0..255;     *)
(* Rust's half-open 0-based ranges s[a..b] are written Slice(s, a, b).     *)
(***************************************************************************)
EXTENDS Integers, Sequences, FiniteSets, TLC

\* ------------------------------------------------------------------ bounds
\* Largest number of records in an extension region of the model.
MaxRecords == 2
\* Largest body length a record header of the model declares.
MaxBodyLen == 1

\* --------------------------------------------------------------- constants
EXTENSIONS_PADDING == 83
EXTENSION_START_OFFSET == 1
EXTENSION_LENGTH_LEN == 2
EXTENSION_TYPE_LEN == 2
\* state::Mint::LEN and state::TokenAccount::LEN (base record sizes)
Mint_LEN == 82
TokenAccount_LEN == 165

\* ------------------------------------------------------------ ExtensionType
\* The closed enumeration, in declaration order (discriminant = index - 1).
ExtensionType ==
  << "Uninitialized", "TransferFeeConfig", "TransferFeeAmount",
     "MintCloseAuthority", "ConfidentialTransferMint",
     "ConfidentialTransferAccount", "DefaultAccountState", "ImmutableOwner",
     "MemoTransfer", "NonTransferable", "InterestBearingConfig", "CpiGuard",
     "PermanentDelegate", "NonTransferableAccount", "TransferHook",
     "TransferHookAccount", "ConfidentialTransferFeeConfig",
     "ConfidentialTransferFeeAmount", "MetadataPointer", "TokenMetadata",
     "GroupPointer", "TokenGroup", "GroupMemberPointer", "TokenGroupMember",
     "ConfidentialMintBurn", "ScaledUiAmount", "Pausable", "PausableAccount" >>

\* Option::None of ExtensionType::from_bytes
NoExtensionType == "None"

\* Mutant: the two bytes are read big-endian.
u16_from_be_bytes(b) == 256 * b[1] + b[2]

\* u16::from_le_bytes
u16_from_le_bytes(b) == b[1] + 256 * b[2]

\* The arms `n => ExtensionType::X` of ExtensionType::from_bytes.
FromBytesArm(v) ==
  CASE v = 0  -> "Uninitialized"
    [] v = 1  -> "TransferFeeConfig"
    [] v = 2  -> "TransferFeeAmount"
    [] v = 3  -> "MintCloseAuthority"
    [] v = 4  -> "ConfidentialTransferMint"
    [] v = 5  -> "ConfidentialTransferAccount"
    [] v = 6  -> "DefaultAccountState"
    [] v = 7  -> "ImmutableOwner"
    [] v = 8  -> "MemoTransfer"
    [] v = 9  -> "NonTransferable"
    [] v = 10 -> "InterestBearingConfig"
    [] v = 11 -> "CpiGuard"
    [] v = 12 -> "PermanentDelegate"
    [] v = 13 -> "NonTransferableAccount"
    [] v = 14 -> "TransferHook"
    [] v = 15 -> "TransferHookAccount"
    [] v = 16 -> "ConfidentialTransferFeeConfig"
    [] v = 17 -> "ConfidentialTransferFeeAmount"
    [] v = 18 -> "MetadataPointer"
    [] v = 19 -> "TokenMetadata"
    [] v = 20 -> "GroupPointer"
    [] v = 21 -> "TokenGroup"
    [] v = 22 -> "GroupMemberPointer"
    [] v = 23 -> "TokenGroupMember"
    [] v = 24 -> "ConfidentialMintBurn"
    [] v = 25 -> "ScaledUiAmount"
    [] v = 26 -> "Pausable"
    [] v = 27 -> "PausableAccount"
    [] OTHER  -> NoExtensionType

\* Mutant of the registry: code 28 is taken for Uninitialized padding.
ExtensionType_from_bytes_lenient(val) ==
  LET v == u16_from_le_bytes(val)
  IN  IF v = 28 THEN "Uninitialized" ELSE FromBytesArm(v)

\* ExtensionType::from_bytes: match on the little-endian u16.
ExtensionType_from_bytes(val) == FromBytesArm(u16_from_le_bytes(val))

\* ------------------------------------------------------- impl Extension for
\* The extension view types of the source files, with the associated
\* constants their `impl super::Extension` blocks declare.
ExtensionImpls ==
  { "PausableConfig", "PausableAccount", "PermanentDelegate",
    "DefaultAccountState", "TransferHook", "TransferHookAccount",
    "ConfidentialMintBurn", "ScaledUiAmountConfig" }

\* const TYPE
TYPE(T) ==
  CASE T = "PausableConfig"       -> "Pausable"
    [] T = "PausableAccount"      -> "PausableAccount"
    [] T = "PermanentDelegate"    -> "PermanentDelegate"
    [] T = "DefaultAccountState"  -> "DefaultAccountState"
    [] T = "TransferHook"         -> "TransferHook"
    [] T = "TransferHookAccount"  -> "TransferHook"
    [] T = "ConfidentialMintBurn" -> "ConfidentialMintBurn"
    [] T = "ScaledUiAmountConfig" -> "ScaledUiAmount"

\* const LEN = core::mem::size_of::<Self>()
LEN(T) ==
  CASE T = "PausableConfig"       -> 33
    [] T = "PausableAccount"      -> 0
    [] T = "PermanentDelegate"    -> 32
    [] T = "DefaultAccountState"  -> 1
    [] T = "TransferHook"         -> 64
    [] T = "TransferHookAccount"  -> 1
    [] T = "ConfidentialMintBurn" -> 196
    [] T = "ScaledUiAmountConfig" -> 56

\* const BASE_STATE
BASE_STATE(T) ==
  CASE T = "PausableConfig"       -> "Mint"
    [] T = "PausableAccount"      -> "TokenAccount"
    [] T = "PermanentDelegate"    -> "Mint"
    [] T = "DefaultAccountState"  -> "Mint"
    [] T = "TransferHook"         -> "Mint"
    [] T = "TransferHookAccount"  -> "TokenAccount"
    [] T = "ConfidentialMintBurn" -> "Mint"
    [] T = "ScaledUiAmountConfig" -> "Mint"

\* from_account_info_unchecked begins with the is_owned_by test in every
\* extension file except scaled_ui_amount.rs.
ChecksOwner(T) == T # "ScaledUiAmountConfig"

\* ------------------------------------------------------------ byte helpers
\* Rust s[a..b]
Slice(s, a, b) == SubSeq(s, a + 1, b)

\* Mutant: the account-type byte in front of the region is not skipped.
RegionOffsetNoFlag(T) ==
  IF BASE_STATE(T) = "Mint"
    THEN Mint_LEN + EXTENSIONS_PADDING
    ELSE TokenAccount_LEN

\* Start of the extension region inside the account data.
RegionOffset(T) ==
  IF BASE_STATE(T) = "Mint"
    THEN Mint_LEN + EXTENSIONS_PADDING + EXTENSION_START_OFFSET
    ELSE TokenAccount_LEN + EXTENSION_START_OFFSET

\* &acc_data_bytes[offset..]
ext_bytes_of(T, acc_data_bytes) ==
  Slice(acc_data_bytes, RegionOffset(T), Len(acc_data_bytes))

\* ------------------------------------------------------------ the scan loop
\* Mutant: the typed lookup matches on the type code alone.
TypedMatchAnyLen(ext_type, ext_len, T) == ext_type = TYPE(T)

\* if ext_type == T::TYPE && ext_len as usize == T::LEN
TypedMatch(ext_type, ext_len, T) == ext_type = TYPE(T) /\ ext_len = LEN(T)

\* Mutant: the variable-body lookup also wants a non-empty body.
VariableMatchNonEmpty(ext_type, ext_len, T) == ext_type = TYPE(T) /\ ext_len > 0

\* if ext_type == T::TYPE
VariableMatch(ext_type, ext_len, T) == ext_type = TYPE(T)

\* Mutant: the cursor skips the header only.
\* Mutant: the header left out of the step.
NextStartBodyOnly(start, ext_len) == start + ext_len

\* Mutant: the body counted twice.
NextStartBodyTwice(start, ext_len) ==
  start + EXTENSION_TYPE_LEN + EXTENSION_LENGTH_LEN + 2 * ext_len

NextStartHeaderOnly(start, ext_len) == start + EXTENSION_TYPE_LEN + EXTENSION_LENGTH_LEN

\* start = start + EXTENSION_TYPE_LEN + EXTENSION_LENGTH_LEN + ext_len
NextStart(start, ext_len) ==
  start + EXTENSION_TYPE_LEN + EXTENSION_LENGTH_LEN + ext_len

\* Mutant: the body span starts at the length field.
BodySpanFromLenIdx(ext_data_idx, body_len) ==
  [lo |-> ext_data_idx - EXTENSION_LENGTH_LEN, hi |-> ext_data_idx + body_len]

\* &ext_bytes[ext_data_idx..ext_data_idx + body_len]
BodySpan(ext_data_idx, body_len) ==
  [lo |-> ext_data_idx, hi |-> ext_data_idx + body_len]

\* Mutant: the loop wants more than a whole header to remain.
LoopGuardStrict(start, end) == start + EXTENSION_TYPE_LEN + EXTENSION_LENGTH_LEN < end

\* while start < end
LoopGuard(start, end) == start < end

\* Outcomes of one loop iteration.  kind is "Some" / "None" (the function
\* returns), "Panic" (a slice index past the end aborts the program) or
\* "Continue" (the cursor moves to next).
\* Mutant: a match does not end the scan, which goes on behind the body.
IterSomeKeepsScanning(span) ==
  [kind |-> "Continue", lo |-> 0, hi |-> 0, next |-> span.hi, cause |-> "advance"]
IterSome(span)   == [kind |-> "Some", lo |-> span.lo, hi |-> span.hi, next |-> 0, cause |-> "match"]
IterPanic(why)   == [kind |-> "Panic", lo |-> 0, hi |-> 0, next |-> 0, cause |-> why]
\* Mutant: the unrecognized code is unwrapped instead of propagated with `?`.
IterNoneUnwrap   == IterPanic("unknown_type")
\* ExtensionType::from_bytes(ext_type)? on an unrecognized code
IterNone         == [kind |-> "None", lo |-> 0, hi |-> 0, next |-> 0, cause |-> "unknown_type"]
IterContinue(n)  == [kind |-> "Continue", lo |-> 0, hi |-> 0, next |-> n, cause |-> "advance"]

\* Body of `while start < end` in get_extension_from_bytes (variable = FALSE)
\* and get_extension_data_bytes_for_variable_pack (variable = TRUE).
LoopBody(variable, T, ext_bytes, start) ==
  LET end          == Len(ext_bytes)
      ext_type_idx == start
      ext_len_idx  == ext_type_idx + 2
      ext_data_idx == ext_len_idx + EXTENSION_LENGTH_LEN
  IN
  IF ext_type_idx + EXTENSION_TYPE_LEN > end THEN IterPanic("oob_type")
  ELSE
    LET ext_type == ExtensionType_from_bytes(
                      Slice(ext_bytes, ext_type_idx, ext_type_idx + EXTENSION_TYPE_LEN))
    IN
    IF ext_type = NoExtensionType THEN IterNone
    ELSE IF ext_len_idx + EXTENSION_LENGTH_LEN > end THEN IterPanic("oob_len")
    ELSE
      LET ext_len == u16_from_le_bytes(
                       Slice(ext_bytes, ext_len_idx, ext_len_idx + EXTENSION_LENGTH_LEN))
          matched == IF variable THEN VariableMatch(ext_type, ext_len, T)
                                 ELSE TypedMatch(ext_type, ext_len, T)
          span    == IF variable THEN BodySpan(ext_data_idx, ext_len)
                                 ELSE BodySpan(ext_data_idx, LEN(T))
      IN
      IF matched
        THEN IF span.hi > end THEN IterPanic("oob_body") ELSE IterSome(span)
        ELSE IterContinue(NextStart(start, ext_len))

\* The whole loop from cursor `start`: the Option the accessor returns.
RECURSIVE ScanFrom(_, _, _, _)
ScanFrom(variable, T, ext_bytes, start) ==
  IF ~LoopGuard(start, Len(ext_bytes)) THEN [kind |-> "None", lo |-> 0, hi |-> 0]
  ELSE LET it == LoopBody(variable, T, ext_bytes, start)
       IN  IF it.kind = "Continue"
             THEN ScanFrom(variable, T, ext_bytes, it.next)
             ELSE [kind |-> it.kind, lo |-> it.lo, hi |-> it.hi]

get_extension_from_bytes(T, acc_data_bytes) ==
  IF Len(acc_data_bytes) < RegionOffset(T)
    THEN [kind |-> "Panic", lo |-> 0, hi |-> 0]
    ELSE ScanFrom(FALSE, T, ext_bytes_of(T, acc_data_bytes), 0)

get_extension_data_bytes_for_variable_pack(T, acc_data_bytes) ==
  IF Len(acc_data_bytes) < RegionOffset(T)
    THEN [kind |-> "Panic", lo |-> 0, hi |-> 0]
    ELSE ScanFrom(TRUE, T, ext_bytes_of(T, acc_data_bytes), 0)

\* ---------------------------------------------------------------- inputs
\* Type codes the records of the model carry: Uninitialized padding,
\* DefaultAccountState, TransferHook, PausableAccount and the first
\* unrecognized code.
RecordCodes == {0, 6, 14, 27, 28}
RecordLens == 0..MaxBodyLen
Records == [type : RecordCodes, len : RecordLens]

RECURSIVE SeqsUpTo(_, _)
SeqsUpTo(S, n) ==
  IF n = 0 THEN { <<>> }
  ELSE LET shorter == SeqsUpTo(S, n - 1)
       IN  shorter \cup { Append(s, x) : s \in { t \in shorter : Len(t) = n - 1 }, x \in S }

\* The body of the i-th record of a stream: every byte is 100 + i, so the
\* bodies of different records differ.
BodyOf(i, len) == [j \in 1..len |-> 100 + i]

\* One record on the wire: type and length little-endian, then the body.
EncodeRecord(r, i) ==
  << r.type % 256, r.type \div 256, r.len % 256, r.len \div 256 >> \o BodyOf(i, r.len)

RECURSIVE EncodeFrom(_, _)
EncodeFrom(rs, i) ==
  IF i > Len(rs) THEN <<>>
  ELSE EncodeRecord(rs[i], i) \o EncodeFrom(rs, i + 1)

\* The extension region made of the records rs back to back.
EncodeRegion(rs) == EncodeFrom(rs, 1)

\* Base record, padding and the account-type byte: 166 bytes the accessors
\* never read.
BasePrefix == [i \in 1..(Mint_LEN + EXTENSIONS_PADDING + EXTENSION_START_OFFSET) |-> 0]

\* Account data: the prefix and the region of rs, with the last `cut` bytes
\* removed.
AccountData(rs, cut) ==
  LET full == BasePrefix \o EncodeRegion(rs)
  IN  SubSeq(full, 1, Len(full) - cut)

Owners == {"TOKEN_2022_PROGRAM_ID", "other"}

\* ------------------------------------------------- instruction encoders
\* Largest fill of the public keys handed to the encoders.
MaxKey == 1

\* Pubkey::default(): 32 zero bytes
Pubkey_default == [j \in 1..32 |-> 0]

\* A public key: the default key (fill 0), or 32 distinct non-zero bytes.
PubkeyOf(fill) == [j \in 1..32 |-> IF fill = 0 THEN 0 ELSE (16 * fill + j) % 256]
Pubkeys == { PubkeyOf(f) : f \in 0..MaxKey }

\* Option<Pubkey>
None == [some |-> FALSE, key |-> << >>]
Some(k) == [some |-> TRUE, key |-> k]
OptPubkeys == {None} \cup { Some(k) : k \in Pubkeys }

\* AuthorityType as u8
AuthorityTypes == {"MintTokens", "FreezeAccount", "AccountOwner", "CloseAccount"}

\* Mutant: the variants numbered from one.
AuthorityType_from_one(t) ==
  CASE t = "MintTokens" -> 1
    [] t = "FreezeAccount" -> 2
    [] t = "AccountOwner" -> 3
    [] t = "CloseAccount" -> 4

AuthorityType_as_u8(t) ==
  CASE t = "MintTokens" -> 0
    [] t = "FreezeAccount" -> 1
    [] t = "AccountOwner" -> 2
    [] t = "CloseAccount" -> 3

\* An f64 is held as its bit pattern, four 16-bit words, the most significant
\* first: 0.0, 1.0 and 0.1.
Multipliers ==
  { << 0, 0, 0, 0 >>, << 16368, 0, 0, 0 >>, << 16313, 39321, 39321, 39322 >> }

\* f64::to_le_bytes
f64_to_le_bytes(w) ==
  << w[4] % 256, w[4] \div 256, w[3] % 256, w[3] \div 256,
     w[2] % 256, w[2] \div 256, w[1] % 256, w[1] \div 256 >>

\* The [u8; 8] multipliers handed to UpdateMultiplier.
MultiplierBytes == { [j \in 1..8 |-> 0], << 1, 2, 3, 4, 5, 6, 7, 8 >> }

\* The UnixTimestamp (i64) values handed to UpdateMultiplier.
Timestamps == { -1, 0, 1700000000 }

\* Byte j (from 0, the least significant) of the two's complement of x.
RECURSIVE ByteOf(_, _)
ByteOf(x, j) == IF j = 0 THEN x % 256 ELSE ByteOf(x \div 256, j - 1)

\* Mutant: the most significant byte first.
i64_to_be_bytes(x) == [j \in 1..8 |-> ByteOf(x, 8 - j)]

\* i64::to_le_bytes
i64_to_le_bytes(x) == [j \in 1..8 |-> ByteOf(x, j - 1)]

\* The u8 account states handed to the default-account-state encoders.
StateBytes == {0, 2}

\* The i8 proof-instruction offsets of the confidential operations.
ProofOffsets == -128..127

\* AccountMeta::writable, ::readonly_signer
AccountMeta_writable(k) == [pubkey |-> k, is_writable |-> TRUE, is_signer |-> FALSE]
AccountMeta_readonly_signer(k) == [pubkey |-> k, is_writable |-> FALSE, is_signer |-> TRUE]

\* Mutant: a read-only account tagged writable.
AccountMeta_readonly_as_writable(k) ==
  [pubkey |-> k, is_writable |-> TRUE, is_signer |-> FALSE]

\* AccountMeta::readonly
AccountMeta_readonly(k) == [pubkey |-> k, is_writable |-> FALSE, is_signer |-> FALSE]

\* MaybeUninit::<u8>::uninit(): a cell no byte was written to
UNINIT_BYTE == -1

\* [UNINIT_BYTE; n]
UninitBuffer(n) == [j \in 1..n |-> UNINIT_BYTE]

\* write_bytes(&mut buf[lo..hi], source): the cells of the destination and
\* the bytes of the source pairwise, up to the shorter of the two.
write_bytes(buf, lo, hi, source) ==
  [j \in 1..Len(buf) |->
     IF j > lo /\ j <= hi /\ j - lo <= Len(source) THEN source[j - lo] ELSE buf[j]]

\* core::slice::from_raw_parts(buf.as_ptr() as _, n): the first n cells read
\* as bytes; a cell never written reads as whatever the memory under it holds
\* (garbage[j] for cell j).
from_raw_parts(buf, n, garbage) ==
  [j \in 1..n |-> IF buf[j] = UNINIT_BYTE THEN garbage[j] ELSE buf[j]]

\* The positions (from 0) of the first n cells that were written.
WrittenCells(buf, n) == { j - 1 : j \in { i \in 1..n : buf[i] # UNINIT_BYTE } }

\* What one cell of uninitialised memory may hold: any byte.
GarbageBytes == 0..255

\* The largest instruction buffer ([UNINIT_BYTE; 66] of transfer_hook.rs).
MaxBuffer == 66

\* Every content the memory under an instruction buffer may have when it is
\* read: any byte in any cell, whatever was there before the call and
\* whatever the call itself spilled there.
Memories == [1..MaxBuffer -> GarbageBytes]

\* The encoders copy the memory without looking at it, so it is carried as
\* unknowns: MemoryByte(j) stands for the byte cell j holds, kept apart from
\* the byte values 0..255.
MemoryByte(j) == 256 + j
StackMemory == [j \in 1..MaxBuffer |-> MemoryByte(j)]

\* The bytes a payload stands for when the memory is m: each unknown replaced
\* by the byte m holds in its cell.
Concrete(ix_data, m) ==
  [j \in 1..Len(ix_data) |->
     IF ix_data[j] \in GarbageBytes THEN ix_data[j] ELSE m[ix_data[j] - 256]]

\* A memory whose cells all differ.
StackRamp == [j \in 1..MaxBuffer |-> (j - 1) % 251]

\* Mutant: an absent key contributes no bytes.
OptPubkeyNoSentinel(opt) == opt.key

\* if let Some(key) = opt { key } else { Pubkey::default() }
OptPubkeyOrDefault(opt) == IF opt.some THEN opt.key ELSE Pubkey_default

\* An instruction handed to invoke_signed with its account infos.
Instruction(program_id, accounts, ix_data, written, infos) ==
  [program_id |-> program_id, accounts |-> accounts, data |-> ix_data,
   written |-> written, infos |-> infos]

\* An instruction whose data is a byte literal.
LiteralInstruction(program_id, accounts, ix_data, infos) ==
  Instruction(program_id, accounts, ix_data, 0..(Len(ix_data) - 1), infos)

\* An instruction whose data is the first n cells of a buffer.
BufferInstruction(program_id, accounts, buf, n, garbage, infos) ==
  Instruction(program_id, accounts, from_raw_parts(buf, n, garbage),
              WrittenCells(buf, n), infos)

\* pausable.rs: InitializePausable, Pause, Resume
InitializePausable_data(args) ==
  write_bytes(write_bytes(write_bytes(UninitBuffer(34), 0, 1, << 44 >>), 1, 2, << 0 >>),
              2, 34, args.pubkey)
InitializePausable_ix(args, garbage) ==
  BufferInstruction("TOKEN_2022_PROGRAM_ID", << AccountMeta_writable("mint") >>,
                    InitializePausable_data(args), 34, garbage, << "mint" >>)

Pause_ix(args, garbage) ==
  LiteralInstruction("TOKEN_2022_PROGRAM_ID", << AccountMeta_writable("mint") >>,
                     << 45, 1 >>, << "mint", "pause_authority" >>)
Resume_ix(args, garbage) ==
  LiteralInstruction("TOKEN_2022_PROGRAM_ID", << AccountMeta_writable("mint") >>,
                     << 45, 2 >>, << "mint", "pause_authority" >>)

\* transfer_hook.rs: Initialize, Update
TransferHook_Initialize_data(args) ==
  LET d0 == write_bytes(UninitBuffer(66), 0, 1, << 36 >>)
      d1 == write_bytes(d0, 1, 2, << 0 >>)
      d2 == write_bytes(d1, 2, 34, OptPubkeyOrDefault(args.authority))
  IN  write_bytes(d2, 34, 66, OptPubkeyOrDefault(args.program_id))
TransferHook_Initialize_ix(args, garbage) ==
  BufferInstruction("TOKEN_2022_PROGRAM_ID", << AccountMeta_writable("mint") >>,
                    TransferHook_Initialize_data(args), 66, garbage, << "mint" >>)

\* Mutant: the program id written right after the discriminators.
TransferHook_Update_data_packed(args) ==
  LET d0 == write_bytes(UninitBuffer(66), 0, 1, << 36 >>)
      d1 == write_bytes(d0, 1, 2, << 1 >>)
  IN  write_bytes(d1, 2, 34, OptPubkeyOrDefault(args.program_id))

TransferHook_Update_data(args) ==
  LET d0 == write_bytes(UninitBuffer(66), 0, 1, << 36 >>)
      d1 == write_bytes(d0, 1, 2, << 1 >>)
  IN  write_bytes(d1, 34, 66, OptPubkeyOrDefault(args.program_id))
TransferHook_Update_ix(args, garbage) ==
  BufferInstruction("TOKEN_2022_PROGRAM_ID",
                    << AccountMeta_writable("mint"),
                       AccountMeta_readonly_signer("authority") >>,
                    TransferHook_Update_data(args), 66, garbage, << "mint" >>)

\* scaled_ui_amount.rs: Initialize
ScaledUiAmount_Initialize_data(args) ==
  LET d0 == write_bytes(UninitBuffer(42), 0, 1, << 43 >>)
      d1 == write_bytes(d0, 1, 2, << 0 >>)
      d2 == write_bytes(d1, 2, 34, OptPubkeyOrDefault(args.authority))
  IN  write_bytes(d2, 34, 42, f64_to_le_bytes(args.multiplier))
ScaledUiAmount_Initialize_ix(args, garbage) ==
  BufferInstruction("TOKEN_2022_PROGRAM_ID", << AccountMeta_writable("mint") >>,
                    ScaledUiAmount_Initialize_data(args), 42, garbage, << "mint" >>)

\* scaled_ui_amount.rs: UpdateMultiplier
UpdateMultiplier_data(args) ==
  LET d0 == write_bytes(UninitBuffer(18), 0, 1, << 43 >>)
      d1 == write_bytes(d0, 1, 2, << 1 >>)
      d2 == write_bytes(d1, 2, 10, args.new_multiplier)
  IN  write_bytes(d2, 10, 18, i64_to_le_bytes(args.effective_timestamp))
UpdateMultiplier_ix(args, garbage) ==
  BufferInstruction("TOKEN_2022_PROGRAM_ID",
                    << AccountMeta_writable("mint"),
                       AccountMeta_readonly_signer("authority") >>,
                    UpdateMultiplier_data(args), 18, garbage, << "mint", "authority" >>)

\* default_account_state.rs: InitializeDefaultAccountState,
\* UpdateDefaultAccountState
InitializeDefaultAccountState_ix(args, garbage) ==
  LiteralInstruction("TOKEN_2022_PROGRAM_ID", << AccountMeta_writable("mint") >>,
                     << 28, 0, args.state >>, << "mint" >>)
UpdateDefaultAccountState_ix(args, garbage) ==
  LiteralInstruction("TOKEN_2022_PROGRAM_ID",
                     << AccountMeta_writable("mint"),
                        AccountMeta_readonly_signer("mint_freeze_authority") >>,
                     << 28, 1, args.state >>, << "mint", "mint_freeze_authority" >>)

\* permanent_delegate.rs: InitializePermanentDelegate
InitializePermanentDelegate_data(args) ==
  write_bytes(write_bytes(UninitBuffer(33), 0, 1, << 35 >>), 1, 33, args.pubkey)
InitializePermanentDelegate_ix(args, garbage) ==
  BufferInstruction("TOKEN_2022_PROGRAM_ID", << AccountMeta_writable("mint") >>,
                    InitializePermanentDelegate_data(args), 33, garbage, << "mint" >>)

\* The program ids handed to invoke_with_program and
\* invoke_signed_with_program: the crate's ID and two others.
ProgramIds == {"ID", "TOKEN_2022_PROGRAM_ID", "other"}

\* revoke.rs, sync_native.rs, thaw_account.rs: invoke_signed_with_program,
\* and invoke_signed, which is invoke_signed_with_program with the crate's ID
Revoke_with_program_ix(args, garbage, program_id) ==
  LiteralInstruction(program_id,
                     << AccountMeta_writable("source"),
                        AccountMeta_readonly_signer("authority") >>,
                     << 5 >>, << "source", "authority" >>)
Revoke_ix(args, garbage) == Revoke_with_program_ix(args, garbage, "ID")
SyncNative_with_program_ix(args, garbage, program_id) ==
  LiteralInstruction(program_id, << AccountMeta_writable("native_token") >>,
                     << 17 >>, << "native_token" >>)
SyncNative_ix(args, garbage) == SyncNative_with_program_ix(args, garbage, "ID")
ThawAccount_with_program_ix(args, garbage, program_id) ==
  LiteralInstruction(program_id,
                     << AccountMeta_writable("account"), AccountMeta_readonly("mint"),
                        AccountMeta_readonly_signer("freeze_authority") >>,
                     << 11 >>, << "account", "mint", "freeze_authority" >>)
ThawAccount_ix(args, garbage) == ThawAccount_with_program_ix(args, garbage, "ID")

\* confidential_mint_burn.rs: ApplyPendingBurn
ApplyPendingBurn_ix(args, garbage) ==
  LiteralInstruction("TOKEN_2022_PROGRAM_ID",
                     << AccountMeta_writable("mint"),
                        AccountMeta_readonly_signer("mint_authority") >>,
                     << 42, 5 >>, << "mint", "mint_authority" >>)

\* IxData: a cursor over an instruction buffer.  IxData::new, write_bytes,
\* write_optional_bytes (32 zero bytes for an absent key, the 32 bytes of a
\* present one) and read_bytes (the cells written so far).
IxData_new(buf) == [buf |-> buf, pos |-> 0]
IxData_write_bytes(ix, source) ==
  [buf |-> write_bytes(ix.buf, ix.pos, ix.pos + Len(source), source),
   pos |-> ix.pos + Len(source)]
IxData_write_optional_bytes(ix, opt) ==
  IxData_write_bytes(ix, IF opt.some THEN opt.key ELSE [j \in 1..32 |-> 0])

\* set_authority.rs: SetAuthority
SetAuthority_data(args) ==
  LET i0 == IxData_new(UninitBuffer(35))
      i1 == IxData_write_bytes(i0, << 6 >>)
      i2 == IxData_write_bytes(i1, << AuthorityType_as_u8(args.authority_type) >>)
  IN  IxData_write_optional_bytes(i2, args.authority)
SetAuthority_ix(args, garbage) ==
  LET ix == SetAuthority_data(args)
  IN  BufferInstruction("ID",
                        << AccountMeta_writable("account"),
                           AccountMeta_readonly_signer("authority") >>,
                        ix.buf, ix.pos, garbage, << "account", "authority" >>)

\* The arguments of one call of an encoder.
EncArgs ==
  [authority : OptPubkeys, program_id : OptPubkeys, pubkey : Pubkeys,
   authority_type : AuthorityTypes, multiplier : Multipliers,
   new_multiplier : MultiplierBytes, effective_timestamp : Timestamps,
   state : StateBytes, proof_instruction_offset : {0}]
NoArgs ==
  [authority |-> None, program_id |-> None, pubkey |-> Pubkey_default,
   authority_type |-> "MintTokens", multiplier |-> << 0, 0, 0, 0 >>,
   new_multiplier |-> [j \in 1..8 |-> 0], effective_timestamp |-> 0,
   state |-> 0, proof_instruction_offset |-> 0]

\* ------------------------------------------------------------------ state
VARIABLES
  recs,     \* records the region was built from (input provenance)
  cut,      \* bytes removed from the end of the data (input provenance)
  data,     \* the account data handed to the accessors
  pc,       \* "idle" | "scan" | "done"
  api,      \* "typed" | "variable" | "account_info"
  T,        \* the Extension impl the call is instantiated with
  owner,    \* owner of the AccountInfo (account_info calls)
  start,    \* the loop cursor
  visited,  \* cursor positions whose header the loop has read in full
  cause,    \* why the call ended
  ret,      \* [kind, lo, hi]: the value returned (span in ext_bytes)
  reg_val,  \* the two bytes handed to ExtensionType::from_bytes
  reg_out,  \* what ExtensionType::from_bytes returned for reg_val
  view_T,    \* the view type of the typed view under test
  view_seed, \* selects the value v the record body was written from
  view_pad,  \* body length of the Uninitialized record in front (-1: none)
  view_addr, \* address of the account data modulo 8
  view_out,  \* the outcome of the typed view: kind and fields read
  enc_op,      \* the encoder that was called ("none" before the call)
  enc_args,    \* the arguments of the call
  enc_garbage, \* the memory under the instruction buffer, cell by cell (unknowns)
  enc_sent,    \* the instructions handed to invoke_signed, in order
  enc_res      \* "pending", or the ProgramResult of the call

scanVars == << recs, cut, data, pc, api, T, owner, start, visited, cause, ret >>
regVars == << reg_val, reg_out >>
\* What the accessors of mod.rs leave alone.
viewVars == << view_T, view_seed, view_pad, view_addr, view_out >>
encVars == << enc_op, enc_args, enc_garbage, enc_sent, enc_res >>
nonScanVars == << regVars, viewVars, encVars >>
vars == << scanVars, nonScanVars >>

Pending == [kind |-> "Pending", lo |-> 0, hi |-> 0]

\* The outcome of a typed view that has not run, and one without a value.
ViewPending == [kind |-> "pending", fields |-> << >>]
ViewNoValue(kind) == [kind |-> kind, fields |-> << >>]

\* No typed view is under test.
ViewQuiet ==
  /\ view_T = "PausableAccount" /\ view_seed = 0 /\ view_pad = -1
  /\ view_addr = 0 /\ view_out = ViewPending

\* No encoder is under test.
EncQuiet ==
  /\ enc_op = "none" /\ enc_args = NoArgs /\ enc_garbage = StackMemory
  /\ enc_sent = << >> /\ enc_res = "pending"

Init ==
  /\ recs \in SeqsUpTo(Records, MaxRecords)
  /\ cut \in 0..(Len(EncodeRegion(recs)) + 1)
  /\ data = AccountData(recs, cut)
  /\ pc = "idle"
  /\ api = "typed"
  /\ T = "PausableConfig"
  /\ owner = "TOKEN_2022_PROGRAM_ID"
  /\ start = 0
  /\ visited = <<>>
  /\ cause = "none"
  /\ ret = Pending
  /\ reg_val = << 0, 0 >>
  /\ reg_out = "pending"
  /\ ViewQuiet
  /\ EncQuiet

\* Entry of either accessor: take the region, or abort when the data is
\* shorter than the region offset.
Enter(a, t, o) ==
  /\ api' = a /\ T' = t /\ owner' = o
  /\ start' = 0 /\ visited' = <<>>
  /\ IF Len(data) < RegionOffset(t)
       THEN /\ pc' = "done" /\ cause' = "oob_region"
            /\ ret' = [kind |-> "Panic", lo |-> 0, hi |-> 0]
       ELSE /\ pc' = "scan" /\ cause' = "none" /\ ret' = Pending
  /\ UNCHANGED << recs, cut, data, nonScanVars >>

Call_get_extension_from_bytes ==
  /\ pc = "idle"
  /\ \E t \in ExtensionImpls : Enter("typed", t, owner)

Call_get_extension_data_bytes_for_variable_pack ==
  /\ pc = "idle"
  /\ \E t \in ExtensionImpls : Enter("variable", t, owner)

\* T::from_account_info_unchecked(account_info)
Call_from_account_info_unchecked ==
  /\ pc = "idle"
  /\ \E t \in ExtensionImpls, o \in Owners :
       IF ChecksOwner(t) /\ o # "TOKEN_2022_PROGRAM_ID"
         THEN /\ api' = "account_info" /\ T' = t /\ owner' = o
              /\ start' = 0 /\ visited' = <<>>
              /\ pc' = "done" /\ cause' = "owner"
              /\ ret' = [kind |-> "InvalidAccountOwner", lo |-> 0, hi |-> 0]
              /\ UNCHANGED << recs, cut, data, nonScanVars >>
         ELSE Enter("account_info", t, o)

\* .ok_or(ProgramError::InvalidAccountData) of the account_info callers
ok_or(opt) ==
  IF api = "account_info" /\ opt.kind = "None"
    THEN [kind |-> "InvalidAccountData", lo |-> 0, hi |-> 0]
    ELSE opt

\* Mutant: the scan clears the buffer when it gives up.
LoopExitClearing ==
  /\ pc = "scan"
  /\ ~LoopGuard(start, Len(ext_bytes_of(T, data)))
  /\ pc' = "done" /\ cause' = "exhausted"
  /\ ret' = ok_or([kind |-> "None", lo |-> 0, hi |-> 0])
  /\ data' = [j \in 1..Len(data) |-> 0]
  /\ UNCHANGED << recs, cut, api, T, owner, start, visited, nonScanVars >>

\* `while start < end` is false: the function falls through to `None`.
LoopExit ==
  /\ pc = "scan"
  /\ ~LoopGuard(start, Len(ext_bytes_of(T, data)))
  /\ pc' = "done" /\ cause' = "exhausted"
  /\ ret' = ok_or([kind |-> "None", lo |-> 0, hi |-> 0])
  /\ UNCHANGED << recs, cut, data, api, T, owner, start, visited, nonScanVars >>

\* One iteration of the loop body.
LoopIter ==
  /\ pc = "scan"
  /\ LoopGuard(start, Len(ext_bytes_of(T, data)))
  /\ LET it == LoopBody(api = "variable", T, ext_bytes_of(T, data), start)
     IN  /\ visited' = IF it.cause \in {"match", "advance", "oob_body"}
                         THEN Append(visited, start) ELSE visited
         /\ IF it.kind = "Continue"
              THEN /\ start' = it.next
                   /\ UNCHANGED << pc, cause, ret >>
              ELSE /\ pc' = "done" /\ cause' = it.cause
                   /\ ret' = ok_or([kind |-> it.kind, lo |-> it.lo, hi |-> it.hi])
                   /\ UNCHANGED start
  /\ UNCHANGED << recs, cut, data, api, T, owner, nonScanVars >>

\* The caller takes the result; the borrowed data is as it was.
Return ==
  /\ pc = "done"
  /\ pc' = "idle" /\ ret' = Pending /\ cause' = "none"
  /\ api' = "typed" /\ T' = "PausableConfig" /\ owner' = "TOKEN_2022_PROGRAM_ID"
  /\ start' = 0 /\ visited' = <<>>
  /\ UNCHANGED << recs, cut, data, nonScanVars >>

Next ==
  \/ Call_get_extension_from_bytes
  \/ Call_get_extension_data_bytes_for_variable_pack
  \/ Call_from_account_info_unchecked
  \/ LoopExit
  \/ LoopIter
  \/ Return

Spec == Init /\ [][Next]_vars

\* The loop is a straight run of statements: a scan that can take a step
\* takes it.
SpecLive == Spec /\ WF_vars(LoopIter) /\ WF_vars(LoopExit)

TypeOK ==
  /\ pc \in {"idle", "scan", "done"}
  /\ api \in {"typed", "variable", "account_info"}
  /\ T \in ExtensionImpls
  /\ owner \in Owners
  /\ start \in Nat
  /\ ret.kind \in {"Pending", "Some", "None", "Panic",
                   "InvalidAccountOwner", "InvalidAccountData"}

\* ------------------------------------------------- the registry on its own
\* Largest high byte of the codes handed to ExtensionType::from_bytes.
MaxHighByte == 1

\* The registry is quiet while the accessors run, and the other way round.
ScanQuiet ==
  /\ recs = <<>> /\ cut = 0 /\ data = AccountData(<<>>, 0)
  /\ pc = "idle" /\ api = "typed" /\ T = "PausableConfig"
  /\ owner = "TOKEN_2022_PROGRAM_ID"
  /\ start = 0 /\ visited = <<>> /\ cause = "none" /\ ret = Pending

InitRegistry ==
  /\ ScanQuiet
  /\ ViewQuiet
  /\ EncQuiet
  /\ reg_val \in { << lo, hi >> : lo \in 0..255, hi \in 0..MaxHighByte }
  /\ reg_out = "pending"

\* ExtensionType::from_bytes(val)
Call_ExtensionType_from_bytes ==
  /\ reg_out = "pending"
  /\ reg_out' = ExtensionType_from_bytes(reg_val)
  /\ UNCHANGED << reg_val, scanVars, viewVars, encVars >>

NextRegistry == Call_ExtensionType_from_bytes

SpecRegistry == InitRegistry /\ [][NextRegistry]_vars

\* ------------------------------------------------------ the typed view
\* Largest seed of the values written into a record body.
MaxSeed == 2
\* Largest body of the Uninitialized record put in front of the record.
MaxPad == 1

\* The fields of each view type in declared order: size and alignment of
\* the field's type, and the kind of value it holds.
Fields(t) ==
  CASE t = "PausableConfig" ->
         << [name |-> "authority", size |-> 32, align |-> 1, kind |-> "bytes"],
            [name |-> "paused", size |-> 1, align |-> 1, kind |-> "bool"] >>
    [] t = "PausableAccount" -> << >>
    [] t = "PermanentDelegate" ->
         << [name |-> "delegate", size |-> 32, align |-> 1, kind |-> "bytes"] >>
    [] t = "DefaultAccountState" ->
         << [name |-> "state", size |-> 1, align |-> 1, kind |-> "enum"] >>
    [] t = "TransferHook" ->
         << [name |-> "authority", size |-> 32, align |-> 1, kind |-> "bytes"],
            [name |-> "program_id", size |-> 32, align |-> 1, kind |-> "bytes"] >>
    [] t = "TransferHookAccount" ->
         << [name |-> "transferring", size |-> 1, align |-> 1, kind |-> "bytes"] >>
    [] t = "ConfidentialMintBurn" ->
         << [name |-> "confidential_supply", size |-> 64, align |-> 1, kind |-> "bytes"],
            [name |-> "decryptable_supply", size |-> 36, align |-> 1, kind |-> "bytes"],
            [name |-> "supply_elgamal_pubkey", size |-> 32, align |-> 1, kind |-> "bytes"],
            [name |-> "pending_burn", size |-> 64, align |-> 1, kind |-> "bytes"] >>
    [] t = "ScaledUiAmountConfig" ->
         << [name |-> "authority", size |-> 32, align |-> 1, kind |-> "bytes"],
            [name |-> "multiplier", size |-> 8, align |-> 1, kind |-> "bytes"],
            [name |-> "new_multiplier_effective_timestamp", size |-> 8, align |-> 8,
             kind |-> "bytes"],
            [name |-> "new_multiplier", size |-> 8, align |-> 1, kind |-> "bytes"] >>

\* n rounded up to a multiple of a
AlignUp(n, a) == ((n + a - 1) \div a) * a

\* #[repr(C)]: the alignment of a struct is the largest of its fields'.
RECURSIVE MaxAlignFrom(_, _)
MaxAlignFrom(fs, k) ==
  IF k > Len(fs) THEN 1
  ELSE LET rest == MaxAlignFrom(fs, k + 1)
       IN  IF fs[k].align > rest THEN fs[k].align ELSE rest
AlignOf(t) == MaxAlignFrom(Fields(t), 1)

\* #[repr(C)]: the offset of the k-th field.
RECURSIVE FieldOffset(_, _)
FieldOffset(fs, k) ==
  IF k = 1 THEN 0
  ELSE AlignUp(FieldOffset(fs, k - 1) + fs[k - 1].size, fs[k].align)

\* core::mem::size_of::<T>()
SizeOf(t) ==
  LET fs == Fields(t)
  IN  IF fs = << >> THEN 0
      ELSE AlignUp(FieldOffset(fs, Len(fs)) + fs[Len(fs)].size, AlignOf(t))

\* Sum of the field sizes: what the struct holds apart from padding.
RECURSIVE SumSizes(_, _)
SumSizes(fs, k) == IF k > Len(fs) THEN 0 ELSE fs[k].size + SumSizes(fs, k + 1)

\* The bytes of the k-th field of the value with the given seed: distinct
\* bytes in every field, a valid bool (0, 1) or account state (0, 1, 2).
FieldValue(f, k, seed) ==
  [j \in 1..f.size |->
     CASE f.kind = "bool" -> seed % 2
       [] f.kind = "enum" -> seed % 3
       [] OTHER -> (seed + 16 * k + j) % 256]

\* The value of type t with the given seed, field by field.
ValueOf(t, seed) ==
  [k \in 1..Len(Fields(t)) |-> FieldValue(Fields(t)[k], k, seed)]

\* The in-memory bytes of a value: each field at its offset, zero padding.
BytesOfValue(t, v) ==
  LET fs == Fields(t)
  IN  [b \in 1..SizeOf(t) |->
         IF \E k \in 1..Len(fs) :
              b > FieldOffset(fs, k) /\ b <= FieldOffset(fs, k) + fs[k].size
           THEN LET k == CHOOSE k \in 1..Len(fs) :
                           b > FieldOffset(fs, k) /\ b <= FieldOffset(fs, k) + fs[k].size
                IN  v[k][b - FieldOffset(fs, k)]
           ELSE 0]

\* Reading field k through the reinterpreted reference.
ReadField(body, fs, k) ==
  Slice(body, FieldOffset(fs, k), FieldOffset(fs, k) + fs[k].size)

\* from_bytes: the assertion on the length, then *(data.as_ptr() as *const T)
\* read field by field.
from_bytes(t, body) ==
  IF Len(body) # SizeOf(t) THEN ViewNoValue("Panic")
  ELSE [kind |-> "Value",
        fields |-> [k \in 1..Len(Fields(t)) |-> ReadField(body, Fields(t), k)]]

\* The account data under the view: an optional Uninitialized record, then
\* the record (T's type code, T::LEN, bytes of v).
ViewRegion(t, seed, pad) ==
  LET code == CHOOSE c \in 0..27 : FromBytesArm(c) = TYPE(t)
      front == IF pad < 0 THEN << >>
               ELSE << 0, 0, pad % 256, pad \div 256 >> \o [j \in 1..pad |-> 0]
  IN  front \o << code % 256, code \div 256, LEN(t) % 256, LEN(t) \div 256 >>
            \o BytesOfValue(t, ValueOf(t, seed))
ViewData(t, seed, pad) == BasePrefix \o ViewRegion(t, seed, pad)

InitView ==
  /\ ScanQuiet
  /\ EncQuiet
  /\ reg_val = << 0, 0 >> /\ reg_out = "pending"
  /\ view_T \in ExtensionImpls
  /\ view_seed \in 0..MaxSeed
  /\ view_pad \in -1..MaxPad
  /\ view_addr \in {0, 6}
  /\ view_out = ViewPending

\* The outcomes of get_extension_from_bytes::<T> followed by the reads of the
\* fields: None or an abort of the scan, the fields read, and, when the body
\* does not stand at a multiple of T's alignment, whatever a misaligned
\* reference does in the build (the fields read, or the abort of a build
\* that checks pointer alignment).
ViewOutcomes(t, seed, pad, addr) ==
  LET acc == ViewData(t, seed, pad)
      opt == get_extension_from_bytes(t, acc)
  IN  IF opt.kind # "Some" THEN { ViewNoValue(opt.kind) }
      ELSE LET body == Slice(ext_bytes_of(t, acc), opt.lo, opt.hi)
               at   == addr + RegionOffset(t) + opt.lo
           IN  IF at % AlignOf(t) = 0
                 THEN { from_bytes(t, body) }
                 ELSE { from_bytes(t, body), ViewNoValue("Panic") }

\* get_extension_from_bytes::<T>(data) and the use of the returned &T
Call_typed_view ==
  /\ view_out = ViewPending
  /\ view_out' \in ViewOutcomes(view_T, view_seed, view_pad, view_addr)
  /\ UNCHANGED << view_T, view_seed, view_pad, view_addr, scanVars, regVars, encVars >>

NextView == Call_typed_view

SpecView == InitView /\ [][NextView]_vars

\* ------------------------------------------------ the encoders on their own
InitEncode ==
  /\ ScanQuiet
  /\ ViewQuiet
  /\ reg_val = << 0, 0 >> /\ reg_out = "pending"
  /\ enc_op = "none"
  /\ enc_args \in EncArgs
  /\ enc_garbage = StackMemory
  /\ enc_sent = << >>
  /\ enc_res = "pending"

\* invoke_signed(&instruction, &account_infos, signers) and the return of
\* its result: the instruction is handed over, the callee decides the result.
Dispatch(op, instruction) ==
  /\ enc_res = "pending"
  /\ enc_op' = op
  /\ enc_sent' = Append(enc_sent, instruction)
  /\ enc_res' \in {"Ok", "Err"}
  /\ UNCHANGED << enc_args, enc_garbage, scanVars, regVars, viewVars >>

\* Mutant: an offset of 0 (no inline proof) is refused.
ReturnOkInlineProofOnly(op) ==
  /\ enc_res = "pending"
  /\ enc_op' = op
  /\ enc_res' = IF enc_args.proof_instruction_offset = 0 THEN "Err" ELSE "Ok"
  /\ UNCHANGED << enc_sent, enc_args, enc_garbage, scanVars, regVars, viewVars >>

\* An invoke_signed whose body is Ok(()).
ReturnOk(op) ==
  /\ enc_res = "pending"
  /\ enc_op' = op
  /\ enc_res' = "Ok"
  /\ UNCHANGED << enc_sent, enc_args, enc_garbage, scanVars, regVars, viewVars >>

InitializePausable_invoke_signed ==
  Dispatch("InitializePausable", InitializePausable_ix(enc_args, enc_garbage))
Pause_invoke_signed == Dispatch("Pause", Pause_ix(enc_args, enc_garbage))
Resume_invoke_signed == Dispatch("Resume", Resume_ix(enc_args, enc_garbage))
TransferHook_Initialize_invoke_signed ==
  Dispatch("TransferHook_Initialize", TransferHook_Initialize_ix(enc_args, enc_garbage))
TransferHook_Update_invoke_signed ==
  Dispatch("TransferHook_Update", TransferHook_Update_ix(enc_args, enc_garbage))
ScaledUiAmount_Initialize_invoke_signed ==
  Dispatch("ScaledUiAmount_Initialize", ScaledUiAmount_Initialize_ix(enc_args, enc_garbage))
SetAuthority_invoke_signed ==
  Dispatch("SetAuthority", SetAuthority_ix(enc_args, enc_garbage))
ApplyPendingBurn_invoke_signed ==
  Dispatch("ApplyPendingBurn", ApplyPendingBurn_ix(enc_args, enc_garbage))
UpdateMultiplier_invoke_signed ==
  Dispatch("UpdateMultiplier", UpdateMultiplier_ix(enc_args, enc_garbage))
InitializeDefaultAccountState_invoke_signed ==
  Dispatch("InitializeDefaultAccountState",
           InitializeDefaultAccountState_ix(enc_args, enc_garbage))
UpdateDefaultAccountState_invoke_signed ==
  Dispatch("UpdateDefaultAccountState", UpdateDefaultAccountState_ix(enc_args, enc_garbage))
InitializePermanentDelegate_invoke_signed ==
  Dispatch("InitializePermanentDelegate",
           InitializePermanentDelegate_ix(enc_args, enc_garbage))
Revoke_invoke_signed == Dispatch("Revoke", Revoke_ix(enc_args, enc_garbage))
SyncNative_invoke_signed == Dispatch("SyncNative", SyncNative_ix(enc_args, enc_garbage))
ThawAccount_invoke_signed == Dispatch("ThawAccount", ThawAccount_ix(enc_args, enc_garbage))
\* invoke_with_program and invoke_signed_with_program: the instruction names
\* the program id the caller gives.
Revoke_invoke_signed_with_program ==
  \E program_id \in ProgramIds :
    Dispatch("Revoke", Revoke_with_program_ix(enc_args, enc_garbage, program_id))
SyncNative_invoke_signed_with_program ==
  \E program_id \in ProgramIds :
    Dispatch("SyncNative", SyncNative_with_program_ix(enc_args, enc_garbage, program_id))
ThawAccount_invoke_signed_with_program ==
  \E program_id \in ProgramIds :
    Dispatch("ThawAccount", ThawAccount_with_program_ix(enc_args, enc_garbage, program_id))
InitializeMintData_invoke_signed == ReturnOk("InitializeMintData")
RotateSupplyElGamalPubkey_invoke_signed == ReturnOk("RotateSupplyElGamalPubkey")
UpdateDecryptableSupply_invoke_signed == ReturnOk("UpdateDecryptableSupply")
Mint_invoke_signed == ReturnOk("Mint")
Burn_invoke_signed == ReturnOk("Burn")

NextEncode ==
  \/ InitializePausable_invoke_signed
  \/ Pause_invoke_signed
  \/ Resume_invoke_signed
  \/ TransferHook_Initialize_invoke_signed
  \/ TransferHook_Update_invoke_signed
  \/ ScaledUiAmount_Initialize_invoke_signed
  \/ SetAuthority_invoke_signed
  \/ ApplyPendingBurn_invoke_signed
  \/ UpdateMultiplier_invoke_signed
  \/ InitializeDefaultAccountState_invoke_signed
  \/ UpdateDefaultAccountState_invoke_signed
  \/ InitializePermanentDelegate_invoke_signed
  \/ Revoke_invoke_signed
  \/ SyncNative_invoke_signed
  \/ ThawAccount_invoke_signed
  \/ Revoke_invoke_signed_with_program
  \/ SyncNative_invoke_signed_with_program
  \/ ThawAccount_invoke_signed_with_program
  \/ InitializeMintData_invoke_signed
  \/ RotateSupplyElGamalPubkey_invoke_signed
  \/ UpdateDecryptableSupply_invoke_signed
  \/ Mint_invoke_signed
  \/ Burn_invoke_signed

SpecEncode == InitEncode /\ [][NextEncode]_vars

\* ------------------------------- the operations carrying a proof offset
\* Every i8 is handed in as the proof-instruction offset (for Mint and Burn it
\* stands for each of their three offsets).
InitProof ==
  /\ ScanQuiet
  /\ ViewQuiet
  /\ reg_val = << 0, 0 >> /\ reg_out = "pending"
  /\ enc_op = "none"
  /\ enc_args \in { [NoArgs EXCEPT !.proof_instruction_offset = o] : o \in ProofOffsets }
  /\ enc_garbage = StackMemory
  /\ enc_sent = << >>
  /\ enc_res = "pending"

NextProof ==
  \/ RotateSupplyElGamalPubkey_invoke_signed
  \/ Mint_invoke_signed
  \/ Burn_invoke_signed

SpecProof == InitProof /\ [][NextProof]_vars

\* ------------------------------------------------------- claim vocabulary
\* The region the current call scans.
Region == ext_bytes_of(T, data)

\* The wire code of T::TYPE.
TypeCode(t) == CHOOSE c \in 0..27 : ExtensionType[c + 1] = TYPE(t)

\* Position, inside the region, of the header of the i-th record of recs.
RECURSIVE RecPos(_)
RecPos(i) == IF i = 1 THEN 0 ELSE RecPos(i - 1) + 4 + recs[i - 1].len

\* The region is the untruncated concatenation of records of known type.
AllKnown == \A i \in 1..Len(recs) : recs[i].type < 28
WellFormed == cut = 0 /\ AllKnown

\* The i-th record is one the typed lookup for T is after.
WantedTyped(i) == recs[i].type = TypeCode(T) /\ recs[i].len = LEN(T)
\* The i-th record is one the variable-body lookup for T is after.
WantedVariable(i) == recs[i].type = TypeCode(T)
Wanted(i) == IF api = "variable" THEN WantedVariable(i) ELSE WantedTyped(i)

\* A call of one of the two accessors of mod.rs has returned or aborted.
AccessorDone == pc = "done" /\ api \in {"typed", "variable"}

\* The bytes of the returned span.
Returned == Slice(Region, ret.lo, ret.hi)

\* The header fields stored at region position p.
TypeAt(p) == u16_from_le_bytes(Slice(Region, p, p + 2))
LenAt(p) == u16_from_le_bytes(Slice(Region, p + 2, p + 4))

\* ---------------------------------------------------------------------- C1
\* C1 (as stated): on a well-formed region built from [r1..rn], the typed
\* lookup for ri's type and ri's exact length returns exactly ri's body, for
\* every i.
C1_ScanDeterminismEveryRecord ==
  (pc = "done" /\ api = "typed" /\ WellFormed) =>
    \A i \in 1..Len(recs) :
      WantedTyped(i) =>
        /\ ret.kind = "Some"
        /\ Returned = BodyOf(i, recs[i].len)

\* C1 (amended): on a well-formed region built from [r1..rn], the typed
\* lookup for ri's type and ri's exact length returns exactly ri's body for
\* every i such that no earlier record has ri's type and length (of several
\* records with the same type and length the first one is returned).
C1_ScanDeterminismFirstRecord ==
  (pc = "done" /\ api = "typed" /\ WellFormed) =>
    \A i \in 1..Len(recs) :
      (WantedTyped(i) /\ \A j \in 1..(i - 1) : ~WantedTyped(j)) =>
        /\ ret.kind = "Some"
        /\ ret.lo = RecPos(i) + 4
        /\ ret.hi = RecPos(i) + 4 + recs[i].len
        /\ Returned = BodyOf(i, recs[i].len)

\* A typed lookup found its record behind an earlier record with a body.
C1_Witness ==
  /\ pc = "done" /\ api = "typed" /\ WellFormed
  /\ Len(recs) = 2 /\ recs[1].len = 1 /\ recs[2].len = 1
  /\ ~WantedTyped(1) /\ WantedTyped(2)
  /\ ret.kind = "Some" /\ Returned = BodyOf(2, 1)

\* ---------------------------------------------------------------------- C2
\* C2: when a record with an unrecognized type code (>= 28) stands before the
\* target record, neither accessor returns the target: the record is not
\* skipped, and the lookup fails with None as soon as the scan reaches it
\* (that is, unless a record before the unknown one already matched).
C2_UnknownTypeAbort ==
  (AccessorDone /\ cut = 0) =>
    \A u \in 1..Len(recs) : \A i \in (u + 1)..Len(recs) :
      (recs[u].type >= 28 /\ Wanted(i)) =>
        /\ ~(ret.kind = "Some" /\ ret.lo = RecPos(i) + 4)
        /\ (\A j \in 1..(u - 1) : ~Wanted(j)) => ret.kind = "None"

\* The variable-body lookup failed on an unknown record that stands in front
\* of an intact record of the wanted type.
C2_Witness ==
  /\ AccessorDone /\ api = "variable" /\ cut = 0
  /\ Len(recs) = 2 /\ recs[1].type >= 28 /\ WantedVariable(2)
  /\ ret.kind = "None" /\ visited = <<>>

\* ---------------------------------------------------------------------- C3
\* C3: every view the typed lookup returns comes from a record whose header
\* has type = T::TYPE and length = T::LEN; a record of type T::TYPE with
\* another length is never the one returned.
C3_LengthMismatchRejection ==
  (pc = "done" /\ api = "typed" /\ ret.kind = "Some") =>
    /\ ret.lo >= 4
    /\ TypeAt(ret.lo - 4) = TypeCode(T)
    /\ LenAt(ret.lo - 4) = LEN(T)
    /\ ret.hi - ret.lo = LEN(T)
    /\ \A i \in 1..Len(recs) :
         (recs[i].type = TypeCode(T) /\ recs[i].len # LEN(T)) =>
           ret.lo # RecPos(i) + 4

\* The typed lookup passed over a record of the wanted type with another
\* length and returned a later one of the right length.
C3_Witness ==
  /\ pc = "done" /\ api = "typed" /\ ret.kind = "Some" /\ cut = 0
  /\ Len(recs) = 2
  /\ recs[1].type = TypeCode(T) /\ recs[1].len # LEN(T)
  /\ WantedTyped(2) /\ ret.lo = RecPos(2) + 4

\* ---------------------------------------------------------------------- C4
\* C4: truncating a well-formed region at any byte boundary never makes an
\* accessor read out of bounds; the lookup ends with a returned outcome.
C4_TruncationSafety ==
  (AccessorDone /\ AllKnown /\ cut <= Len(EncodeRegion(recs))) =>
    ret.kind \in {"Some", "None"}

\* ---------------------------------------------------------------------- C5
\* C5: whenever the cursor stands where fewer than 4 bytes remain before the
\* region end (0, 1, 2 or 3), the scan stops and reports not found without
\* reading a header.
C5_ExhaustedScan ==
  (pc = "done" /\ cause \notin {"owner", "oob_region"}
     /\ start <= Len(Region) /\ Len(Region) - start < 4) =>
    /\ cause = "exhausted"
    /\ ret.kind \in {"None", "InvalidAccountData"}

\* ---------------------------------------------------------------------- C6
\* C6: on success of either accessor the returned span lies inside the
\* supplied buffer and is exactly [p+4, p+4+length) of the matched record at
\* region position p: the whole body or nothing.
C6_BodySpanWithinBuffer ==
  (pc = "done" /\ ret.kind = "Some") =>
    /\ visited # <<>>
    /\ LET p == visited[Len(visited)]
       IN  /\ ret.lo = p + 4
           /\ ret.hi = p + 4 + LenAt(p)
           /\ TypeAt(p) = TypeCode(T)
    /\ 0 <= ret.lo /\ ret.lo <= ret.hi /\ ret.hi <= Len(Region)
    /\ RegionOffset(T) + ret.hi <= Len(data)
    /\ Len(Returned) = ret.hi - ret.lo

\* An accessor returned a non-empty body that ends on the last byte of the
\* buffer.
C6_Witness ==
  /\ pc = "done" /\ ret.kind = "Some" /\ api = "variable"
  /\ ret.hi > ret.lo
  /\ RegionOffset(T) + ret.hi = Len(data)

\* ---------------------------------------------------------------------- C7
\* C7: when a lookup runs off the end of the stream and reports not found,
\* no record at a visited position has the wanted type together with the
\* wanted length (for the variable-body lookup: the wanted type at all).
C7_NotFoundSoundness ==
  (pc = "done" /\ cause = "exhausted") =>
    /\ ret.kind \in {"None", "InvalidAccountData"}
    /\ \A k \in 1..Len(visited) :
         ~(/\ TypeAt(visited[k]) = TypeCode(T)
           /\ (api = "variable" \/ LenAt(visited[k]) = LEN(T)))
    /\ WellFormed =>
         /\ Len(visited) = Len(recs)
         /\ \A i \in 1..Len(recs) : visited[i] = RecPos(i) /\ ~Wanted(i)

\* A lookup visited two records, one of the wanted type but another length,
\* and reported not found.
C7_Witness ==
  /\ pc = "done" /\ cause = "exhausted" /\ api = "typed" /\ WellFormed
  /\ Len(visited) = 2 /\ ret.kind = "None"
  /\ \E i \in 1..2 : recs[i].type = TypeCode(T) /\ recs[i].len # LEN(T)

\* ---------------------------------------------------------------------- C8
\* C8: the variable-body accessor is the lookup without the length test: it
\* returns the body of the first record in stream order whose type is
\* T::TYPE, at the length that record's header declares.
C8_VariablePackFirstOfType ==
  (pc = "done" /\ api = "variable") =>
    /\ ret.kind = "Some" =>
         \E i \in 1..Len(recs) :
           /\ recs[i].type = TypeCode(T)
           /\ \A j \in 1..(i - 1) : recs[j].type # TypeCode(T)
           /\ ret.lo = RecPos(i) + 4
           /\ ret.hi = ret.lo + recs[i].len
           /\ Returned = BodyOf(i, recs[i].len)
    /\ WellFormed =>
         ((\E i \in 1..Len(recs) : WantedVariable(i)) <=> ret.kind = "Some")

\* The variable-body accessor returned a body whose length is not T::LEN,
\* from a record behind another one.
C8_Witness ==
  /\ pc = "done" /\ api = "variable" /\ ret.kind = "Some"
  /\ Len(recs) = 2 /\ ret.lo = RecPos(2) + 4
  /\ ret.hi - ret.lo # LEN(T)

\* ---------------------------------------------------------------------- C9
\* What an exhausted scan returns.
NotFoundOutcome == [kind |-> "None", lo |-> 0, hi |-> 0]

C10_OwnerMismatchBeforeParsing ==
  (api = "account_info" /\ pc # "idle" /\ owner # "TOKEN_2022_PROGRAM_ID") =>
    /\ pc = "done"
    /\ ret.kind = "InvalidAccountOwner"
    /\ visited = <<>>

\* --------------------------------------------------------------------- C11
\* The type codes of the wire contract, as (code, identity) pairs.
WireCodes ==
  { << 0, "Uninitialized" >>, << 1, "TransferFeeConfig" >>,
    << 2, "TransferFeeAmount" >>, << 3, "MintCloseAuthority" >>,
    << 4, "ConfidentialTransferMint" >>, << 5, "ConfidentialTransferAccount" >>,
    << 6, "DefaultAccountState" >>, << 7, "ImmutableOwner" >>,
    << 8, "MemoTransfer" >>, << 9, "NonTransferable" >>,
    << 10, "InterestBearingConfig" >>, << 11, "CpiGuard" >>,
    << 12, "PermanentDelegate" >>, << 13, "NonTransferableAccount" >>,
    << 14, "TransferHook" >>, << 15, "TransferHookAccount" >>,
    << 16, "ConfidentialTransferFeeConfig" >>,
    << 17, "ConfidentialTransferFeeAmount" >>, << 18, "MetadataPointer" >>,
    << 19, "TokenMetadata" >>, << 20, "GroupPointer" >>, << 21, "TokenGroup" >>,
    << 22, "GroupMemberPointer" >>, << 23, "TokenGroupMember" >>,
    << 24, "ConfidentialMintBurn" >>, << 25, "ScaledUiAmount" >>,
    << 26, "Pausable" >>, << 27, "PausableAccount" >> }

\* C11: the registry is a total function of the 16-bit code read
\* little-endian: a code 0..27 gives the identity whose position in the
\* enumeration is that code, which is the identity the wire table assigns to
\* it; every code >= 28, a non-zero high byte included, is unrecognized.
C11_RegistryTotal ==
  reg_out # "pending" =>
    LET code == reg_val[1] + 256 * reg_val[2]
    IN  /\ code <= 27 => /\ reg_out = ExtensionType[code + 1]
                         /\ << code, reg_out >> \in WireCodes
        /\ code >= 28 => reg_out = NoExtensionType
        /\ reg_val[2] # 0 => reg_out = NoExtensionType

\* The registry refused a code whose low byte alone names an extension.
C11_Witness ==
  /\ reg_val = << 6, 1 >>
  /\ reg_out = NoExtensionType

\* --------------------------------------------------------------------- C12
\* The wire code the table assigns to the identity of each view type.
OwnCode(t) ==
  CASE t = "TransferHookAccount"  -> 15
    [] t = "TransferHook"         -> 14
    [] t = "PermanentDelegate"    -> 12
    [] t = "DefaultAccountState"  -> 6
    [] t = "ConfidentialMintBurn" -> 24
    [] t = "ScaledUiAmountConfig" -> 25
    [] t = "PausableConfig"       -> 26
    [] t = "PausableAccount"      -> 27

\* C12: each view type is registered under the wire code of its own
\* identity, so a lookup matches records with that code only (a
\* TransferHookAccount lookup matches code 15, not 14) and no two view types
\* share a code.
C12_OwnTypeCode ==
  (pc = "done" /\ api = "typed" /\ ret.kind = "Some") =>
    /\ TypeAt(ret.lo - 4) = OwnCode(T)
    /\ \A t \in ExtensionImpls : TYPE(t) = TYPE(T) => t = T

\* --------------------------------------------------------------------- C13
\* base_size(kind) + padding(kind) + 1
ClaimedOffset(t) ==
  IF BASE_STATE(t) = "Mint" THEN Mint_LEN + 83 + 1 ELSE TokenAccount_LEN + 1

\* C13: the region starts at base_size(kind) + padding(kind) + 1 for either
\* accessor: every header the scan reads stands at that offset plus a record
\* boundary of the stream, never before it, and a returned body is the bytes
\* of the account data at that offset plus the body's place in the stream;
\* a wanted record of a well-formed stream laid out from that offset is found.
C13_RegionStart ==
  (pc \in {"scan", "done"} /\ cause \notin {"owner", "oob_region"} /\ cut = 0) =>
    /\ \A k \in 1..Len(visited) :
         /\ ClaimedOffset(T) + visited[k] >= Len(BasePrefix)
         /\ \E i \in 1..Len(recs) :
              ClaimedOffset(T) + visited[k] = Len(BasePrefix) + RecPos(i)
    /\ ret.kind = "Some" =>
         \E i \in 1..Len(recs) :
           /\ ClaimedOffset(T) + ret.lo = Len(BasePrefix) + RecPos(i) + 4
           /\ SubSeq(data, ClaimedOffset(T) + ret.lo + 1, ClaimedOffset(T) + ret.hi)
                = BodyOf(i, recs[i].len)
    /\ (pc = "done" /\ AllKnown /\ \E i \in 1..Len(recs) : Wanted(i)) =>
         ret.kind = "Some"

\* A lookup of an account-kind extension returned the body of the second
\* record of the stream.
C13_Witness ==
  /\ pc = "done" /\ cut = 0 /\ BASE_STATE(T) = "TokenAccount"
  /\ ret.kind = "Some" /\ ret.hi > ret.lo
  /\ Len(visited) = 2
  /\ ClaimedOffset(T) + ret.lo = Len(BasePrefix) + RecPos(2) + 4

\* --------------------------------------------------------------------- C14
\* C14: for every fixed-layout view type T and value v, the typed lookup on
\* a buffer whose region holds the record (T's type code, T::LEN, bytes of v)
\* returns a value whose fields are bit-equal to v's, in declared order.
C14_RoundTrip ==
  view_out # ViewPending =>
    /\ view_out.kind = "Value"
    /\ view_out.fields = ValueOf(view_T, view_seed)

\* --------------------------------------------------------------------- C15
\* C15: every view type used with the typed accessor has alignment 1, no
\* padding, and a size equal to the record length the scan checks (T::LEN).
C15_ByteAlignedLayout ==
  view_out # ViewPending =>
    /\ AlignOf(view_T) = 1
    /\ SizeOf(view_T) = SumSizes(Fields(view_T), 1)
    /\ SizeOf(view_T) = LEN(view_T)

\* --------------------------------------------------------------------- C16
\* C16: every operation's invoke_signed hands exactly one instruction to
\* dispatch; none returns success without having dispatched, the confidential
\* mint-burn operations InitializeMintData, RotateSupplyElGamalPubkey,
\* UpdateDecryptableSupply, Mint and Burn included.
C16_DispatchedExactlyOnce ==
  enc_res # "pending" => Len(enc_sent) = 1

\* --------------------------------------------------------------------- C17
\* C17: Pause dispatches the payload [45, 1] and nothing more, with the
\* account references writable(mint) and readonly-signer(authority).
C17_PauseLiteral ==
  (enc_op = "Pause" /\ enc_res # "pending") =>
    /\ Len(enc_sent) = 1
    /\ enc_sent[1].data = << 45, 1 >>
    /\ enc_sent[1].accounts[1] = AccountMeta_writable("mint")
    /\ \E k \in 1..Len(enc_sent[1].accounts) :
         enc_sent[1].accounts[k] = AccountMeta_readonly_signer("pause_authority")

\* --------------------------------------------------------------------- C18
\* The 32 bytes an optional public key stands for on the wire.
SentinelBytes(opt) == IF opt.some THEN opt.key ELSE [j \in 1..32 |-> 0]

\* C18: the optional keys of transfer-hook Initialize (authority at [2..34],
\* program_id at [34..66]) and of scaled-UI-amount Initialize (authority at
\* [2..34]) are encoded as 32 zero bytes when absent and verbatim when present.
C18_OptionalFieldSentinel ==
  /\ (enc_op = "TransferHook_Initialize" /\ enc_res # "pending") =>
       /\ Len(enc_sent) = 1
       /\ Len(enc_sent[1].data) = 66
       /\ SubSeq(enc_sent[1].data, 3, 34) = SentinelBytes(enc_args.authority)
       /\ SubSeq(enc_sent[1].data, 35, 66) = SentinelBytes(enc_args.program_id)
  /\ (enc_op = "ScaledUiAmount_Initialize" /\ enc_res # "pending") =>
       /\ Len(enc_sent) = 1
       /\ Len(enc_sent[1].data) = 42
       /\ SubSeq(enc_sent[1].data, 3, 34) = SentinelBytes(enc_args.authority)

\* InitializeTransferHook{authority: None, program_id: Some(P)} was sent.
C18_Witness ==
  /\ enc_op = "TransferHook_Initialize" /\ enc_res = "Ok"
  /\ enc_args.authority = None
  /\ enc_args.program_id = Some(PubkeyOf(1))
  /\ SubSeq(enc_sent[1].data, 3, 34) = [j \in 1..32 |-> 0]
  /\ SubSeq(enc_sent[1].data, 35, 66) = PubkeyOf(1)

\* --------------------------------------------------------------------- C19
\* C19: transfer-hook Update dispatches a payload that starts with [36, 1]
\* and holds the program id given (32 zero bytes when absent) in its
\* program_id field [34..66]; the authority field [2..34] is left unset.
C19_UpdateTransferHook ==
  (enc_op = "TransferHook_Update" /\ enc_res # "pending") =>
    /\ Len(enc_sent) = 1
    /\ Len(enc_sent[1].data) = 66
    /\ SubSeq(enc_sent[1].data, 1, 2) = << 36, 1 >>
    /\ SubSeq(enc_sent[1].data, 35, 66) = SentinelBytes(enc_args.program_id)
    /\ enc_sent[1].written = {0, 1} \cup 34..65

\* An Update with a program id: the authority field reads what the memory
\* holds, cell by cell.
C19_Witness ==
  /\ enc_op = "TransferHook_Update" /\ enc_res = "Ok"
  /\ enc_args.program_id = Some(PubkeyOf(1))
  /\ \A j \in 3..34 : enc_sent[1].data[j] = MemoryByte(j)
  /\ StackRamp \in Memories
  /\ SubSeq(Concrete(enc_sent[1].data, StackRamp), 3, 34) = SubSeq(StackRamp, 3, 34)
  /\ SubSeq(enc_sent[1].data, 35, 66) = PubkeyOf(1)

\* --------------------------------------------------------------------- C20
\* The byte the table gives each authority type.
AuthorityTypeByte(t) ==
  CASE t = "MintTokens" -> 0
    [] t = "FreezeAccount" -> 1
    [] t = "AccountOwner" -> 2
    [] t = "CloseAccount" -> 3

TablePayload(op, args) ==
  CASE op = "InitializeDefaultAccountState" -> << 28, 0, args.state >>
    [] op = "UpdateDefaultAccountState" -> << 28, 1, args.state >>
    [] op = "InitializePermanentDelegate" -> << 35 >> \o args.pubkey
    [] op = "InitializePausable" -> << 44, 0 >> \o args.pubkey
    [] op = "ScaledUiAmount_Initialize" ->
         << 43, 0 >> \o SentinelBytes(args.authority)
           \o << args.multiplier[4] % 256, args.multiplier[4] \div 256,
                 args.multiplier[3] % 256, args.multiplier[3] \div 256,
                 args.multiplier[2] % 256, args.multiplier[2] \div 256,
                 args.multiplier[1] % 256, args.multiplier[1] \div 256 >>
    [] op = "UpdateMultiplier" ->
         << 43, 1 >> \o args.new_multiplier
           \o [j \in 1..8 |->
                 IF args.effective_timestamp < 0
                   THEN IF j = 1 THEN 256 + args.effective_timestamp ELSE 255
                   ELSE IF j > 4 THEN 0
                   ELSE (args.effective_timestamp \div (256 ^ (j - 1))) % 256]
FieldedOps ==
  {"InitializeDefaultAccountState", "UpdateDefaultAccountState",
   "InitializePermanentDelegate", "InitializePausable",
   "ScaledUiAmount_Initialize", "UpdateMultiplier"}
TableLength(op) ==
  CASE op = "InitializeDefaultAccountState" -> 3
    [] op = "UpdateDefaultAccountState" -> 3
    [] op = "InitializePermanentDelegate" -> 33
    [] op = "InitializePausable" -> 34
    [] op = "ScaledUiAmount_Initialize" -> 42
    [] op = "UpdateMultiplier" -> 18

\* C21: each fielded operation dispatches exactly its discriminators followed
\* by its fields at their fixed positions, and nothing else: 3, 3, 33, 34, 42
\* and 18 bytes.
C21_FieldedPayloads ==
  (enc_op \in FieldedOps /\ enc_res # "pending") =>
    /\ Len(enc_sent) = 1
    /\ Len(enc_sent[1].data) = TableLength(enc_op)
    /\ enc_sent[1].data = TablePayload(enc_op, enc_args)

\* An UpdateMultiplier with a negative timestamp.
C21_Witness ==
  /\ enc_op = "UpdateMultiplier" /\ enc_res = "Ok"
  /\ enc_args.effective_timestamp = -1
  /\ enc_args.new_multiplier = << 1, 2, 3, 4, 5, 6, 7, 8 >>
  /\ enc_sent[1].data =
       << 43, 1, 1, 2, 3, 4, 5, 6, 7, 8, 255, 255, 255, 255, 255, 255, 255, 255 >>

\* --------------------------------------------------------------------- C22
\* The payload and the account references the table gives each field-less
\* operation (no references are stated for Resume).
FieldlessOps == {"Revoke", "SyncNative", "ThawAccount", "Resume", "ApplyPendingBurn"}
FieldlessPayload(op) ==
  CASE op = "Revoke" -> << 5 >>
    [] op = "SyncNative" -> << 17 >>
    [] op = "ThawAccount" -> << 11 >>
    [] op = "Resume" -> << 45, 2 >>
    [] op = "ApplyPendingBurn" -> << 42, 5 >>
FieldlessAccounts(op) ==
  CASE op = "Revoke" ->
         << [pubkey |-> "source", is_writable |-> TRUE, is_signer |-> FALSE],
            [pubkey |-> "authority", is_writable |-> FALSE, is_signer |-> TRUE] >>
    [] op = "SyncNative" ->
         << [pubkey |-> "native_token", is_writable |-> TRUE, is_signer |-> FALSE] >>
    [] op = "ThawAccount" ->
         << [pubkey |-> "account", is_writable |-> TRUE, is_signer |-> FALSE],
            [pubkey |-> "mint", is_writable |-> FALSE, is_signer |-> FALSE],
            [pubkey |-> "freeze_authority", is_writable |-> FALSE, is_signer |-> TRUE] >>
    [] op = "ApplyPendingBurn" ->
         << [pubkey |-> "mint", is_writable |-> TRUE, is_signer |-> FALSE],
            [pubkey |-> "mint_authority", is_writable |-> FALSE, is_signer |-> TRUE] >>

\* C22: Revoke, Sync native, Thaw account, Resume and Apply pending burn
\* dispatch exactly their discriminator bytes, with the account references
\* declared for them.
C22_FieldlessPayloads ==
  (enc_op \in FieldlessOps /\ enc_res # "pending") =>
    /\ Len(enc_sent) = 1
    /\ enc_sent[1].data = FieldlessPayload(enc_op)
    /\ enc_op # "Resume" => enc_sent[1].accounts = FieldlessAccounts(enc_op)

\* A ThawAccount was dispatched with its three references.
C22_Witness ==
  /\ enc_op = "ThawAccount" /\ enc_res = "Ok"
  /\ enc_sent[1].data = << 11 >>
  /\ Len(enc_sent[1].accounts) = 3
  /\ ~enc_sent[1].accounts[2].is_writable /\ ~enc_sent[1].accounts[2].is_signer

\* --------------------------------------------------------------------- C23
ProofOps == {"RotateSupplyElGamalPubkey", "Mint", "Burn"}

\* C23: RotateSupplyElGamalPubkey, confidential Mint and confidential Burn
\* accept every proof-instruction offset in -128..127, 0 included, without
\* validation: the result of the call is the same for every offset.
C23_ProofOffsetOpaque ==
  (enc_op \in ProofOps /\ enc_res # "pending") =>
    /\ enc_args.proof_instruction_offset \in -128..127
    /\ enc_res = "Ok"

\* A RotateSupplyElGamalPubkey with offset 0 (no inline proof) returned.
C23_Witness ==
  /\ enc_op = "RotateSupplyElGamalPubkey"
  /\ enc_args.proof_instruction_offset = 0
  /\ enc_res = "Ok"

WrongLength(i) == recs[i].type = TypeCode(T) /\ recs[i].len # LEN(T)

\* C25: past a record that fails the match test the cursor stands exactly
\* 4 + that record's declared length further and the scan goes on; a record
\* of the wanted type whose length is not T::LEN is passed in this way, and
\* the typed lookup still finds a later record of the wanted type and length.
C25_AdvancePastNonMatching ==
  /\ \A k \in 1..(Len(visited) - 1) :
       visited[k + 1] = visited[k] + 4 + LenAt(visited[k])
  /\ (pc = "scan" /\ visited # << >>) =>
       start = visited[Len(visited)] + 4 + LenAt(visited[Len(visited)])
  /\ (pc = "done" /\ api = "typed" /\ WellFormed) =>
       \A i \in 1..Len(recs) : \A j \in (i + 1)..Len(recs) :
         (WrongLength(i) /\ WantedTyped(j) /\ \A m \in 1..(j - 1) : ~WantedTyped(m)) =>
           /\ ret.kind = "Some"
           /\ ret.lo = RecPos(j) + 4
           /\ \E k \in 1..(Len(visited) - 1) :
                /\ visited[k] = RecPos(i)
                /\ visited[k + 1] = RecPos(i) + 4 + recs[i].len

\* The typed lookup passed a record of the wanted type and length 0 and found
\* the record of the wanted type and length T::LEN = 1 behind it.
C25_Witness ==
  /\ pc = "done" /\ api = "typed" /\ WellFormed
  /\ T = "DefaultAccountState"
  /\ Len(recs) = 2 /\ WrongLength(1) /\ WantedTyped(2)
  /\ visited = << 0, 4 >>
  /\ ret.kind = "Some" /\ ret.lo = 8

\* --------------------------------------------------------------------- C26
\* C26: the account infos handed to dispatch are as many as the instruction's
\* account references and name the same accounts in the same order.
C26_InfosMatchReferences ==
  \A n \in 1..Len(enc_sent) :
    /\ Len(enc_sent[n].infos) = Len(enc_sent[n].accounts)
    /\ \A k \in 1..Len(enc_sent[n].accounts) :
         k <= Len(enc_sent[n].infos) =>
           enc_sent[n].infos[k] = enc_sent[n].accounts[k].pubkey

\* --------------------------------------------------------------------- C27
\* C27: every byte of the payload handed to dispatch was written by the
\* encoder: the written positions are exactly [0, payload length).
C27_PayloadFullyWritten ==
  \A n \in 1..Len(enc_sent) :
    enc_sent[n].written = 0..(Len(enc_sent[n].data) - 1)

\* --------------------------------------------------------------------- C28
\* C28: on a buffer shorter than the start offset of the extension region
\* both accessors return a failure (not found / invalid data) and read
\* nothing out of bounds.
C28_ShortBufferFails ==
  (pc = "done" /\ cause # "owner" /\ Len(data) < RegionOffset(T)) =>
    ret.kind \in {"None", "InvalidAccountData"}

\* --------------------------------------------------------------------- C29
\* C29: when several records have the wanted type (and, for the typed lookup,
\* the length T::LEN), the lookup returns the body of the one at the smallest
\* stream position, and no record behind the first match is read.
C29_FirstMatchWins ==
  AccessorDone =>
    /\ ret.kind = "Some" =>
         /\ \E i \in 1..Len(recs) :
              /\ Wanted(i)
              /\ \A j \in 1..(i - 1) : ~Wanted(j)
              /\ ret.lo = RecPos(i) + 4
              /\ ret.hi = ret.lo + recs[i].len
         /\ \A k \in 1..Len(visited) : visited[k] <= ret.lo - 4
         /\ start = ret.lo - 4
    /\ (WellFormed /\ \E i \in 1..Len(recs) : Wanted(i)) => ret.kind = "Some"

\* Two records of the wanted type and length: the first was returned and the
\* second was never read.
C29_Witness ==
  /\ AccessorDone /\ WellFormed
  /\ Len(recs) = 2 /\ Wanted(1) /\ Wanted(2) /\ recs[1].len = 1
  /\ ret.kind = "Some" /\ ret.lo = 4 /\ ret.hi = 5
  /\ visited = << 0 >>

\* --------------------------------------------------------------------- C30
\* Iterations of the loop body run so far in the current call: the headers
\* read in full, and the iteration that ended the call before that.
Iterations ==
  Len(visited) + IF cause \in {"oob_type", "unknown_type", "oob_len"} THEN 1 ELSE 0

\* Every cursor the loop has stood at is at least 4 further than the one
\* before, and there were at most ceil(region length / 4) iterations.
BoundedScan ==
  (pc \in {"scan", "done"} /\ cause \notin {"owner", "oob_region"}) =>
    /\ \A k \in 1..(Len(visited) - 1) : visited[k + 1] >= visited[k] + 4
    /\ (pc = "scan" /\ visited # << >>) => start >= visited[Len(visited)] + 4
    /\ 4 * Iterations < Len(Region) + 4

\* C30: the scan loop of both accessors terminates on every finite buffer:
\* an iteration returns or moves the cursor at least 4 further, so there are
\* at most ceil(region length / 4) iterations, zero-length records included.
C30_ScanTerminates ==
  /\ []BoundedScan
  /\ (pc = "scan") ~> (pc = "done")

\* A scan over two zero-length Uninitialized records ran off the end after
\* two iterations.
C30_Witness ==
  /\ pc = "done" /\ cause = "exhausted" /\ cut = 0
  /\ Len(recs) = 2 /\ recs[1].len = 0 /\ recs[2].len = 0
  /\ recs[1].type = 0 /\ recs[2].type = 0
  /\ visited = << 0, 4 >>
  /\ Len(Region) = 8
====
